---- MODULE Spec2Model ----
(***************************************************************************)
(* Model of plugins/fnys.py: the request signer FNSIGN, the HTTP client    *)
(* FNWEB (whose BASE_URL is a class attribute) and the plugin Fnys         *)
(* (construction with login, and run).                                     *)
(*                                                                         *)
(* Text is a sequence of one-character strings, so that splitting,         *)
(* percent-encoding and concatenation are computed and not assumed.        *)
(* Python's None is the tag "none"; a key absent from a dict is "absent".  *)
(***************************************************************************)
EXTENDS Integers, Sequences, FiniteSets, TLC

VARIABLES BASE_URL, sessions, last, sig

vars == <<BASE_URL, sessions, last, sig>>

(***************************************************************************)
(* Bounds of the model.                                                    *)
(***************************************************************************)
MaxSessions == 2
MaxListLen == 2
MaxQuery == 2

(***************************************************************************)
(* Text helpers.                                                           *)
(***************************************************************************)
Last(s) == s[Len(s)]
Front(s) == SubSeq(s, 1, Len(s) - 1)

\* s.endswith(c) for a one-character c
EndsWith(s, c) == Len(s) > 0 /\ Last(s) = c

\* truthiness of a Python str
Truthy(s) == s # <<>>

\* the exception classes of the model: the two raised by the HTTP transport
\* are RequestException subclasses, and all five are Exception subclasses
RequestExceptions == {"HTTPError", "ConnectionError"}
Exceptions == RequestExceptions \cup {"KeyError", "TypeError", "AttributeError"}

(***************************************************************************)
(* FNSIGN: the signer.                                                     *)
(***************************************************************************)
\* the characters of the model's texts, in code point order
CharOrder ==
    <<" ", "%", "&", "+", "/", "0", "1", "2", "3", "4", "5", "6", "7", "8", "9",
      "=", "?", "B", "D", "E", "G", "O", "P", "S", "T", "U", "_",
      "a", "b", "d", "e", "f", "g", "i", "k", "l", "n", "o", "p", "s", "t", "u",
      "v", "x", "y">>

Ord(c) == CHOOSE i \in 1..Len(CharOrder) : CharOrder[i] = c

\* Python's  s < t  on str
RECURSIVE StrLess(_, _)
StrLess(s, t) ==
    IF t = <<>> THEN FALSE
    ELSE IF s = <<>> THEN TRUE
    ELSE IF Head(s) = Head(t) THEN StrLess(Tail(s), Tail(t))
    ELSE Ord(Head(s)) < Ord(Head(t))

\* s.startswith(p)
StartsWith(s, p) == Len(s) >= Len(p) /\ SubSeq(s, 1, Len(p)) = p

\* s.replace(old, new), old non-empty
RECURSIVE Replace(_, _, _)
Replace(s, old, new) ==
    IF s = <<>> THEN <<>>
    ELSE IF StartsWith(s, old)
         THEN new \o Replace(SubSeq(s, Len(old) + 1, Len(s)), old, new)
         ELSE <<Head(s)>> \o Replace(Tail(s), old, new)

\* s.split(c): the pieces of s between occurrences of the character c
RECURSIVE Split(_, _)
Split(s, c) ==
    IF \A i \in 1..Len(s) : s[i] # c THEN <<s>>
    ELSE LET i == CHOOSE j \in 1..Len(s) : s[j] = c /\ \A h \in 1..(j - 1) : s[h] # c
         IN  <<SubSeq(s, 1, i - 1)>> \o Split(SubSeq(s, i + 1, Len(s)), c)

\* s.split(c, 1): at most two pieces
Split1(s, c) ==
    IF \A i \in 1..Len(s) : s[i] # c THEN <<s>>
    ELSE LET i == CHOOSE j \in 1..Len(s) : s[j] = c /\ \A h \in 1..(j - 1) : s[h] # c
         IN  <<SubSeq(s, 1, i - 1), SubSeq(s, i + 1, Len(s))>>

\* sep.join(parts)
RECURSIVE Join(_, _)
Join(parts, sep) ==
    IF parts = <<>> THEN <<>>
    ELSE IF Len(parts) = 1 THEN parts[1]
    ELSE parts[1] \o sep \o Join(Tail(parts), sep)

\* str.upper() on the letters of method names
UpperChar(c) ==
    CASE c = "g" -> "G" [] c = "e" -> "E" [] c = "t" -> "T" [] c = "p" -> "P"
      [] c = "o" -> "O" [] c = "s" -> "S" [] c = "u" -> "U" [] OTHER -> c

Upper(s) == [i \in 1..Len(s) |-> UpperChar(s[i])]

\* percent codes of the characters that quote_plus does not leave alone
\* (letters, digits and _ . - ~ are safe)
PctCode(c) ==
    CASE c = "%" -> <<"%", "2", "5">>
      [] c = "&" -> <<"%", "2", "6">>
      [] c = "+" -> <<"%", "2", "B">>
      [] c = "/" -> <<"%", "2", "F">>
      [] c = "=" -> <<"%", "3", "D">>
      [] c = "?" -> <<"%", "3", "F">>
      [] OTHER -> <<c>>

\* urllib.parse.quote_plus: a space becomes '+', unsafe characters %XX
RECURSIVE QuotePlus(_)
QuotePlus(s) ==
    IF s = <<>> THEN <<>>
    ELSE (IF Head(s) = " " THEN <<"+">> ELSE PctCode(Head(s))) \o QuotePlus(Tail(s))

\* the character a two-digit hex code stands for; "" when the two characters
\* are not one of the codes of the model's alphabet
HexChar(a, b) ==
    CASE a = "2" /\ b = "0" -> " "
      [] a = "2" /\ b = "5" -> "%"
      [] a = "2" /\ b = "6" -> "&"
      [] a = "2" /\ b \in {"B", "b"} -> "+"
      [] a = "2" /\ b \in {"F", "f"} -> "/"
      [] a = "3" /\ b \in {"D", "d"} -> "="
      [] a = "3" /\ b \in {"F", "f"} -> "?"
      [] a = "6" /\ b \in {"E", "e"} -> "n"
      [] OTHER -> ""

\* urllib.parse.unquote: %XX is decoded, a '%' not followed by two hex digits
\* stays as it is
RECURSIVE Unquote(_)
Unquote(s) ==
    IF s = <<>> THEN <<>>
    ELSE IF Head(s) = "%" /\ Len(s) >= 3 /\ HexChar(s[2], s[3]) # ""
         THEN <<HexChar(s[2], s[3])>> \o Unquote(SubSeq(s, 4, Len(s)))
         ELSE <<Head(s)>> \o Unquote(Tail(s))

\* a dict is the sequence of its items [k, v] in insertion order, keys distinct
DictKeys(d) == {d[i].k : i \in 1..Len(d)}

\* d[k] = v : an existing key keeps its place
DictSet(d, k, v) ==
    IF k \in DictKeys(d)
    THEN [i \in 1..Len(d) |-> IF d[i].k = k THEN [k |-> k, v |-> v] ELSE d[i]]
    ELSE Append(d, [k |-> k, v |-> v])

\* d.update(items): the items are applied in order
RECURSIVE DictUpdate(_, _)
DictUpdate(d, items) ==
    IF items = <<>> THEN d
    ELSE DictUpdate(DictSet(d, Head(items).k, Head(items).v), Tail(items))

\* {**first, **second}
DictMerge(first, second) == DictUpdate(first, second)

\* variant: the items are left in insertion order
Unsorted(d) == d

\* sorted(params.items()): by key, the keys of a dict being distinct
RECURSIVE SortedItems(_)
SortedItems(d) ==
    IF d = <<>> THEN <<>>
    ELSE LET m == CHOOSE i \in 1..Len(d) : \A j \in 1..Len(d) : ~StrLess(d[j].k, d[i].k)
             rest == [j \in 1..(Len(d) - 1) |-> IF j < m THEN d[j] ELSE d[j + 1]]
         IN  <<d[m]>> \o SortedItems(rest)

\* FNSIGN.is_undefined / FNSIGN.is_null: value is None
is_undefined(v) == v.tag = "none"
is_null(v) == v.tag = "none"

\* the dict comprehension of stringify_params
RECURSIVE SelectItems(_)
SelectItems(items) ==
    IF items = <<>> THEN <<>>
    ELSE (IF ~is_undefined(Head(items).v) /\ ~is_null(Head(items).v)
          THEN <<Head(items)>> ELSE <<>>) \o SelectItems(Tail(items))

Filtered(params) == SelectItems(SortedItems(params))

\* urlencode(filtered, doseq=True) for str values
UrlEncode(d) ==
    Join([i \in 1..Len(d) |-> QuotePlus(d[i].k) \o <<"=">> \o QuotePlus(d[i].v.val)],
         <<"&">>)

\* FNSIGN.stringify_params
stringify_params(params) == Replace(UrlEncode(Filtered(params)), <<"+">>, <<"%", "2", "0">>)

Undefined == <<"u", "n", "d", "e", "f", "i", "n", "e", "d">>
Null == <<"n", "u", "l", "l">>

\* one name=value piece of a query string, as parse_qsl decodes it
\* (keep_blank_values=True: a piece without '=' has the value '')
QslItem(piece) ==
    LET nv == Split1(piece, "=")
        name == Unquote(Replace(nv[1], <<"+">>, <<" ">>))
        value == IF Len(nv) = 2 THEN Unquote(Replace(nv[2], <<"+">>, <<" ">>)) ELSE <<>>
    IN  [k |-> name, v |-> [tag |-> "str", val |-> value]]

\* urllib.parse.parse_qsl(qs, keep_blank_values=True): empty pieces are skipped
RECURSIVE QslItems(_)
QslItems(pieces) ==
    IF pieces = <<>> THEN <<>>
    ELSE (IF Head(pieces) = <<>> THEN <<>> ELSE <<QslItem(Head(pieces))>>)
         \o QslItems(Tail(pieces))

parse_qsl(qs) == QslItems(Split(qs, "&"))

\* variant: every parsed item is kept
KeepAll(params, items) == DictUpdate(params, items)

\* the loop of parse_url:  if v not in ('undefined', 'null'): params[k] = v
RECURSIVE KeepDefined(_, _)
KeepDefined(params, items) ==
    IF items = <<>> THEN params
    ELSE KeepDefined(
           IF Head(items).v.val \notin {Undefined, Null}
           THEN DictSet(params, Head(items).k, Head(items).v) ELSE params,
           Tail(items))

\* FNSIGN.parse_url
parse_url(url) ==
    LET parts == Split1(url, "?")
    IN  [path |-> parts[1],
         params |-> IF Len(parts) > 1 /\ parts[2] # <<>>
                    THEN KeepDefined(<<>>, parse_qsl(parts[2])) ELSE <<>>]

\* hashlib.md5(text).hexdigest(), kept symbolic as the text md5(...): equal
\* digests exactly for equal texts
MD5(text) == <<"m", "d", "5", "(">> \o text \o <<")">>

\* the text that str.replace is given as its literal first argument
LookaheadPattern ==
    <<"%", "(", "?", "!", "[", "0", "-", "9", "A", "-", "F", "a", "-", "f", "]",
      "{", "2", "}", ")">>

\* FNSIGN.hash_signature_data
hash_signature_data(data) ==
    MD5(Unquote(Replace(data, LookaheadPattern, <<"%", "2", "5">>)))

\* json.dumps(data, separators=(',', ':'), ensure_ascii=False) of a dict of
\* str to str whose texts need no escaping
JsonDumps(d) ==
    <<"{">>
    \o Join([i \in 1..Len(d) |->
               <<"\"">> \o d[i].k \o <<"\"", ":", "\"">> \o d[i].v.val \o <<"\"">>],
            <<",">>)
    \o <<"}">>

\* the arguments of the one call of get_random_number, 1e5 and 1e6, and the
\* width given to zfill
NonceMin == 100000
NonceMax == 1000000
NonceWidth == 6

\* random.random() is rnd / (RandScale * (max_val - min_val)), a number of
\* [0, 1) for rnd in 0 .. RandScale * (max_val - min_val) - 1, so that
\* val = min_val + rnd / RandScale exactly
RandScale == 4

\* FNSIGN.get_random_number; round() rounds a tie to the even integer
get_random_number(rnd, min_val, max_val, round_type) ==
    LET whole == min_val + (rnd \div RandScale)
        part == rnd % RandScale
    IN  CASE round_type = "floor" -> whole
          [] round_type = "ceil" -> IF part > 0 THEN whole + 1 ELSE whole
          [] OTHER -> IF 2 * part < RandScale THEN whole
                      ELSE IF 2 * part > RandScale THEN whole + 1
                      ELSE IF whole % 2 = 0 THEN whole ELSE whole + 1

\* str(n) of a natural number
RECURSIVE Digits(_)
Digits(n) ==
    LET d == <<"0", "1", "2", "3", "4", "5", "6", "7", "8", "9">>[(n % 10) + 1]
    IN  IF n < 10 THEN <<d>> ELSE Digits(n \div 10) \o <<d>>

\* s.zfill(width) of a text without sign
RECURSIVE ZFill(_, _)
ZFill(s, width) == IF Len(s) >= width THEN s ELSE ZFill(<<"0">> \o s, width)

\* the constant that opens the text the sign is the digest of
AppConstant == <<"N", "D", "z", "Z", "T", "V", "x", "n", "R", "K", "P", "8", "Z", "0",
                 "j", "X", "g", "1", "V", "A", "M", "o", "n", "a", "G", "8", "a", "k",
                 "v", "h">>

\* f"nonce={nonce}&timestamp={timestamp}&sign={sign}"
SignatureHeader(nonce, timestamp, sign) ==
    <<"n", "o", "n", "c", "e", "=">> \o nonce
    \o <<"&", "t", "i", "m", "e", "s", "t", "a", "m", "p", "=">> \o timestamp
    \o <<"&", "s", "i", "g", "n", "=">> \o sign

\* variant: except AttributeError
SigCatchesAttributeError(exc) == exc = "AttributeError"

\* except Exception: every exception class of the model is caught
SigCatches(exc) == exc \in Exceptions

\* request_text of a GET request:
\* stringify_params({**request_info.get('params', {}), **query_params})
Combined(params, query_params) == DictMerge(params, query_params)

\* FNSIGN.generate_signature(request_info, secret), with the draw of
\* random.random() and the clock's milliseconds as rnd and now.  The result
\* holds the locals the call assigned before it returned or failed.
generate_signature(request_info, secret, rnd, now) ==
    LET blank == [exc |-> "none", escaped |-> "none", diag |-> FALSE,
                  is_get |-> FALSE, path |-> <<>>, query_params |-> <<>>,
                  combined |-> <<>>, request_text |-> <<>>,
                  signature_text |-> <<>>, nonce |-> <<>>, timestamp |-> <<>>,
                  sign |-> <<>>, result |-> <<>>]
        fail(exc, locals) ==
            IF SigCatches(exc)
            THEN [locals EXCEPT !.exc = exc, !.diag = TRUE, !.result = <<>>]
            ELSE [locals EXCEPT !.exc = exc, !.escaped = exc]
    IN  IF request_info.shape # "dict" \/ request_info.method.tag = "none"
        THEN fail("AttributeError", blank)
        ELSE
        LET method == Upper(IF request_info.method.tag = "absent" THEN <<>>
                            ELSE request_info.method.val)
            is_get == method = <<"G", "E", "T">>
            l1 == [blank EXCEPT !.is_get = is_get]
        IN  IF request_info.url.tag = "none" THEN fail("AttributeError", l1)
            ELSE
            LET url == IF request_info.url.tag = "absent" THEN <<>>
                       ELSE request_info.url.val
                parsed == parse_url(url)
                l2 == [l1 EXCEPT !.path = parsed.path, !.query_params = parsed.params]
            IN  IF is_get /\ request_info.params.tag \notin {"absent", "dict"}
                THEN fail("TypeError", l2)
                ELSE IF ~is_get /\ request_info.data.tag = "unserializable"
                THEN fail("TypeError", l2)
                ELSE
                LET combined == IF is_get
                                THEN Combined(request_info.params.val, parsed.params)
                                ELSE <<>>
                    request_text ==
                        IF is_get THEN stringify_params(combined)
                        ELSE IF request_info.data.tag = "dict"
                        THEN JsonDumps(request_info.data.val)
                        ELSE <<>>
                    signature_text == hash_signature_data(request_text)
                    nonce == ZFill(Digits(get_random_number(rnd, NonceMin, NonceMax,
                                                            "round")),
                                   NonceWidth)
                    timestamp == Digits(now)
                    l3 == [l2 EXCEPT !.combined = combined,
                                     !.request_text = request_text,
                                     !.signature_text = signature_text,
                                     !.nonce = nonce, !.timestamp = timestamp]
                IN  IF secret.tag # "str" THEN fail("TypeError", l3)
                    ELSE
                    LET raw == Join(<<AppConstant, parsed.path, nonce, timestamp,
                                      signature_text, secret.val>>, <<"_">>)
                        sign == MD5(raw)
                    IN  [l3 EXCEPT !.sign = sign,
                                   !.result = SignatureHeader(nonce, timestamp, sign)]

(***************************************************************************)
(* FNWEB: class attributes and the three calls.  A call issues one HTTP    *)
(* request to BASE_URL + endpoint and either returns a value or raises.    *)
(***************************************************************************)
ApiPrefix == <<"/", "v", "/", "a", "p", "i", "/", "v", "1">>

LoginPath == <<"/", "l", "o", "g", "i", "n">>
ListPath == <<"/", "m", "e", "d", "i", "a", "d", "b", "/", "l", "i", "s", "t">>
ScanPath == <<"/", "m", "d", "b", "/", "s", "c", "a", "n", "/">>

\* response.raise_for_status() and response.json()[...] of a server reply
TransportExc(resp) ==
    CASE resp.kind = "http_error" -> "HTTPError"
      [] resp.kind = "network_error" -> "ConnectionError"
      [] OTHER -> "none"

\* FNWEB.login: POST BASE_URL/login; returns response.json()['data']['token']
FNWEB_login(base, resp) ==
    LET request == [method |-> "POST", address |-> base \o LoginPath,
                    auth |-> [tag |-> "str", val |-> <<>>]]
        exc == CASE TransportExc(resp) # "none" -> TransportExc(resp)
                 [] resp.kind \in {"no_data", "no_token"} -> "KeyError"
                 [] resp.kind = "data_null" -> "TypeError"
                 [] OTHER -> "none"
    IN  [request |-> request, exc |-> exc, value |-> resp.token]

\* FNWEB.get_media_list: GET BASE_URL/mediadb/list; returns response.json()['data']
FNWEB_get_media_list(base, token, resp) ==
    LET request == [method |-> "GET", address |-> base \o ListPath, auth |-> token]
        exc == CASE TransportExc(resp) # "none" -> TransportExc(resp)
                 [] resp.kind = "no_data" -> "KeyError"
                 [] OTHER -> "none"
    IN  [request |-> request, exc |-> exc, value |-> resp]

\* FNWEB.scan_media: POST BASE_URL/mdb/scan/<guid>; returns response.json()
FNWEB_scan_media(base, guid, token, resp) ==
    LET request == [method |-> "POST", address |-> base \o ScanPath \o guid,
                    auth |-> token]
    IN  [request |-> request, exc |-> TransportExc(resp), value |-> resp]

(***************************************************************************)
(* Fnys: the plugin.  token and is_active are class attributes ("" and     *)
(* False) that an instance shadows when it assigns them; url, username and *)
(* password exist on an instance only when the constructor set them.       *)
(***************************************************************************)
ConfigKeys == {"url", "username", "password"}

NoneVal == [tag |-> "none", val |-> <<>>]
AbsentVal == [tag |-> "absent", val |-> <<>>]
StrVal(s) == [tag |-> "str", val |-> s]

\* truthiness of a value that is a str or None
TruthyVal(v) == v.tag = "str" /\ Truthy(v.val)

\* the chain  self.url and self.username and self.password  : reading an
\* attribute the loop did not set raises AttributeError; the first falsy
\* operand ends the chain
CredentialCheck(kw) ==
    IF "url" \notin kw.keys THEN "AttributeError"
    ELSE IF ~Truthy(kw.url) THEN "skip"
    ELSE IF "username" \notin kw.keys THEN "AttributeError"
    ELSE IF ~Truthy(kw.username) THEN "skip"
    ELSE IF "password" \notin kw.keys THEN "AttributeError"
    ELSE IF ~Truthy(kw.password) THEN "skip"
    ELSE "login"

\* if self.url.endswith('/'): self.url = self.url[:-1]
StripSlash(url) == IF EndsWith(url, "/") THEN Front(url) ELSE url

\* FNWEB.BASE_URL = self.url + FNWEB.BASE_URL
NewBaseUrl(url, base) == url \o base

\* the try/except around FNWEB.login: except Exception catches every class
InitCatches(exc) == exc \in Exceptions

\* variant: the instance is marked active whatever the token
ActiveAlways(token) == TRUE

\* if self.token: self.is_active = True
ActiveAfterLogin(token) == TruthyVal(token)

\* Fnys.__init__(**kwargs) against the current FNWEB.BASE_URL; resp is the
\* server's reply to the login request, if one is issued
Fnys_init(base, kw, resp) ==
    LET fresh == [keys |-> kw.keys, url |-> kw.url, username |-> kw.username,
                  password |-> kw.password, token |-> StrVal(<<>>),
                  is_active |-> FALSE]
        check == IF kw.keys = {} THEN "skip" ELSE CredentialCheck(kw)
    IN  CASE check = "AttributeError" ->
               [escaped |-> "AttributeError", base |-> base, built |-> FALSE,
                session |-> fresh, requests |-> <<>>, report |-> "none"]
          [] check = "skip" ->
               [escaped |-> "none", base |-> base, built |-> TRUE,
                session |-> fresh, requests |-> <<>>, report |-> "none"]
          [] OTHER ->
               LET url == StripSlash(kw.url)
                   base2 == NewBaseUrl(url, base)
                   call == FNWEB_login(base2, resp)
                   caught == call.exc # "none" /\ InitCatches(call.exc)
                   token == IF call.exc = "none" THEN call.value ELSE fresh.token
               IN  [escaped |-> IF call.exc # "none" /\ ~caught THEN call.exc ELSE "none",
                    base |-> base2,
                    built |-> call.exc = "none" \/ caught,
                    session |-> [fresh EXCEPT !.url = url, !.token = token,
                                              !.is_active = ActiveAfterLogin(token)],
                    requests |-> <<call.request>>,
                    report |-> IF caught THEN "unknown_error" ELSE "none"]

\* task.get("addition", {}).get(self.plugin_name, self.default_task_config)
\* followed by task_config.get("media_name")
MediaName(task) ==
    IF ~task.has_cfg THEN StrVal(<<>>)
    ELSE IF task.media.tag = "absent" THEN NoneVal
    ELSE task.media

\* variant: the last matching entry wins
RECURSIVE NextGuidLast(_, _)
NextGuidLast(media_list, media_name) ==
    IF media_list = <<>> THEN [exc |-> "none", guid |-> NoneVal]
    ELSE LET item == Last(media_list)
         IN  IF ~item.has_title THEN [exc |-> "KeyError", guid |-> NoneVal]
             ELSE IF item.title = media_name
                  THEN IF ~item.has_guid THEN [exc |-> "KeyError", guid |-> NoneVal]
                       ELSE [exc |-> "none", guid |-> StrVal(item.guid)]
                  ELSE NextGuidLast(Front(media_list), media_name)

\* next((item["guid"] for item in media_list if item["title"] == media_name), None)
RECURSIVE NextGuid(_, _)
NextGuid(media_list, media_name) ==
    IF media_list = <<>> THEN [exc |-> "none", guid |-> NoneVal]
    ELSE LET item == Head(media_list)
         IN  IF ~item.has_title THEN [exc |-> "KeyError", guid |-> NoneVal]
             ELSE IF item.title = media_name
                  THEN IF ~item.has_guid THEN [exc |-> "KeyError", guid |-> NoneVal]
                       ELSE [exc |-> "none", guid |-> StrVal(item.guid)]
                  ELSE NextGuid(Tail(media_list), media_name)

\* variant: only the RequestException clause
RunExceptRequestOnly(exc) ==
    IF exc \in RequestExceptions
    THEN [report |-> "request_error", escaped |-> "none"]
    ELSE [report |-> "none", escaped |-> exc]

\* the except clauses of run, in order: RequestException, KeyError, Exception
RunExcept(exc) ==
    CASE exc \in RequestExceptions -> [report |-> "request_error", escaped |-> "none"]
      [] exc = "KeyError" -> [report |-> "format_error", escaped |-> "none"]
      [] exc \in Exceptions -> [report |-> "unknown_error", escaped |-> "none"]
      [] OTHER -> [report |-> "none", escaped |-> exc]

\* if not guid: report "not found" and return
GuidMissing(guid) == ~TruthyVal(guid)

\* Fnys.run(task) of a session holding token, against the current BASE_URL
Fnys_run(base, token, task, listResp, scanResp) ==
    LET media_name == MediaName(task)
        quiet == [requests |-> <<>>, report |-> "none", escaped |-> "none"]
    IN  IF ~TruthyVal(media_name) THEN quiet
        ELSE
          LET listing == FNWEB_get_media_list(base, token, listResp)
              iter == IF listResp.kind = "data_null"
                      THEN [exc |-> "TypeError", guid |-> NoneVal]
                      ELSE NextGuid(listResp.data, media_name.val)
          IN  IF listing.exc # "none"
              THEN [requests |-> <<listing.request>>] @@ RunExcept(listing.exc)
              ELSE IF iter.exc # "none"
              THEN [requests |-> <<listing.request>>] @@ RunExcept(iter.exc)
              ELSE IF GuidMissing(iter.guid)
              THEN [requests |-> <<listing.request>>, report |-> "not_found",
                    escaped |-> "none"]
              ELSE
                LET scan == FNWEB_scan_media(base, iter.guid.val, token, scanResp)
                    both == <<listing.request, scan.request>>
                IN  IF scan.exc # "none"
                    THEN [requests |-> both] @@ RunExcept(scan.exc)
                    ELSE IF scanResp.kind = "no_data"
                    THEN [requests |-> both] @@ RunExcept("KeyError")
                    ELSE [requests |-> both,
                          report |-> IF scanResp.data THEN "success" ELSE "failure",
                          escaped |-> "none"]

(***************************************************************************)
(* Inputs: the configurations, tasks and server replies the operations are *)
(* driven with.                                                            *)
(***************************************************************************)
Urls == {<<>>, <<"a", "/">>, <<"b">>}
Usernames == {<<>>, <<"a", "l", "i", "c", "e">>}
Passwords == {<<>>, <<"p", "w">>}
Tokens == {StrVal(<<"T", "1">>), StrVal(<<>>), NoneVal}
TV == <<"T", "V">>
Movies == <<"M", "o", "v", "i", "e", "s">>
G1 == <<"g", "1">>
G2 == <<"g", "2">>

Kwargs ==
    {[keys |-> K,
      url |-> IF "url" \in K THEN u ELSE <<>>,
      username |-> IF "username" \in K THEN n ELSE <<>>,
      password |-> IF "password" \in K THEN p ELSE <<>>] :
        K \in SUBSET ConfigKeys, u \in Urls, n \in Usernames, p \in Passwords}

LoginResponses ==
    {[kind |-> "ok", token |-> t] : t \in Tokens}
    \cup {[kind |-> k, token |-> NoneVal] :
            k \in {"http_error", "network_error", "no_data", "no_token", "data_null"}}

Tasks ==
    {[has_cfg |-> FALSE, media |-> AbsentVal]}
    \cup {[has_cfg |-> TRUE, media |-> m] : m \in {AbsentVal, StrVal(<<>>), StrVal(TV)}}

Entry(hg, g, ht, t) == [has_guid |-> hg, guid |-> g, has_title |-> ht, title |-> t]

\* library entries: well-formed ones, one with an empty guid, one without a
\* guid and one without a title
Entries ==
    {Entry(TRUE, G1, TRUE, TV), Entry(TRUE, G2, TRUE, TV), Entry(TRUE, G1, TRUE, Movies),
     Entry(TRUE, <<>>, TRUE, TV), Entry(FALSE, <<>>, TRUE, TV),
     Entry(TRUE, G1, FALSE, <<>>)}

MediaLists == UNION {[1..n -> Entries] : n \in 0..MaxListLen}

ListResponses ==
    {[kind |-> "ok", data |-> l] : l \in MediaLists}
    \cup {[kind |-> k, data |-> <<>>] :
            k \in {"http_error", "network_error", "no_data", "data_null"}}

ScanResponses ==
    {[kind |-> "ok", data |-> d] : d \in BOOLEAN}
    \cup {[kind |-> k, data |-> FALSE] : k \in {"http_error", "network_error", "no_data"}}

\* placeholders of `last` for what an operation did not use
NoKwargs == [keys |-> {}, url |-> <<>>, username |-> <<>>, password |-> <<>>]
NoTask == [has_cfg |-> FALSE, media |-> AbsentVal]
NoLogin == [kind |-> "unsent", token |-> NoneVal]
NoList == [kind |-> "unsent", data |-> <<>>]
NoScan == [kind |-> "unsent", data |-> FALSE]

\* the replies an operation asks the server for: none for a request that is
\* not issued
LoginInputs(kw) ==
    IF kw.keys # {} /\ CredentialCheck(kw) = "login" THEN LoginResponses ELSE {NoLogin}
ListInputs(task) ==
    IF TruthyVal(MediaName(task)) THEN ListResponses ELSE {NoList}
ScanInputs(base, token, task, listResp) ==
    IF Len(Fnys_run(base, token, task, listResp, NoScan).requests) = 2
    THEN ScanResponses ELSE {NoScan}

SigIdle == [pc |-> "idle"]

(***************************************************************************)
(* The plugin as a state machine: FNWEB.BASE_URL, the instances built so   *)
(* far, and a record of the most recent operation (what it was given, the  *)
(* requests it issued, what it reported, the exception that escaped it).   *)
(***************************************************************************)
NoOp ==
    [op |-> "none", idx |-> 0, escaped |-> "none", requests |-> <<>>,
     report |-> "none", kw |-> NoKwargs, login |-> NoLogin,
     task |-> NoTask, list |-> NoList, scan |-> NoScan]

Init ==
    /\ BASE_URL = ApiPrefix
    /\ sessions = <<>>
    /\ last = NoOp
    /\ sig = SigIdle

\* Fnys(**kw)
Construct ==
    /\ Len(sessions) < MaxSessions
    /\ \E kw \in Kwargs : \E resp \in LoginInputs(kw) :
         LET r == Fnys_init(BASE_URL, kw, resp)
         IN  /\ BASE_URL' = r.base
             /\ sessions' = IF r.built THEN Append(sessions, r.session) ELSE sessions
             /\ last' = [NoOp EXCEPT !.op = "init",
                           !.idx = IF r.built THEN Len(sessions) + 1 ELSE 0,
                           !.escaped = r.escaped, !.requests = r.requests,
                           !.report = r.report, !.kw = kw, !.login = resp]
    /\ UNCHANGED sig

\* sessions[i].run(task)
Run ==
    /\ \E i \in 1..Len(sessions), task \in Tasks :
         \E listResp \in ListInputs(task) :
           \E scanResp \in ScanInputs(BASE_URL, sessions[i].token, task, listResp) :
             LET r == Fnys_run(BASE_URL, sessions[i].token, task, listResp, scanResp)
             IN  last' = [NoOp EXCEPT !.op = "run", !.idx = i,
                            !.escaped = r.escaped, !.requests = r.requests,
                            !.report = r.report, !.task = task,
                            !.list = listResp, !.scan = scanResp]
    /\ UNCHANGED <<BASE_URL, sessions, sig>>

Next == Construct \/ Run

Spec == Init /\ [][Next]_vars

\* construction only
InitNext == Construct

InitSpec == Init /\ [][InitNext]_vars

\* task execution on one instance, built without configuration or with all
\* three credentials
RunKwargs == {kw \in Kwargs : kw.keys = {} \/ CredentialCheck(kw) = "login"}

RunInit ==
    /\ \E kw \in RunKwargs : \E resp \in LoginInputs(kw) :
         LET r == Fnys_init(ApiPrefix, kw, resp)
         IN  /\ r.built
             /\ BASE_URL = r.base
             /\ sessions = <<r.session>>
    /\ last = NoOp
    /\ sig = SigIdle

RunNext == Run

RunSpec == RunInit /\ [][RunNext]_vars

(***************************************************************************)
(* The signer on its own: a call of generate_signature is drawn (request,  *)
(* secret, the random draw and the clock) and the call is made.            *)
(***************************************************************************)
Keys == {<<"a">>, <<"b">>}
ExplicitValues == {StrVal(<<"1">>), StrVal(Undefined), StrVal(<<"x", " ", "y">>), NoneVal}
QueryValues == {<<"2">>, Undefined, Null, <<"%", "6", "E", "u", "l", "l">>}

DictVal(d) == [tag |-> "dict", val |-> d]
AbsentDict == [tag |-> "absent", val |-> <<>>]
NoneDict == [tag |-> "none", val |-> <<>>]

\* explicit params: a dict over some of the keys, in any insertion order
ParamDicts ==
    {d \in UNION {[1..n -> [k : Keys, v : ExplicitValues]] : n \in 0..Cardinality(Keys)} :
        \A i, j \in 1..Len(d) : d[i].k = d[j].k => i = j}

\* the query strings: up to MaxQuery pieces key=value, joined with '&'
QueryPieces == {k \o <<"=">> \o v : k \in Keys, v \in QueryValues}
QueryStrings == {Join(q, <<"&">>) : q \in UNION {[1..n -> QueryPieces] : n \in 0..MaxQuery}}

PathText == <<"/", "p">>
GetUrls == {PathText} \cup {PathText \o <<"?">> \o q : q \in QueryStrings}

SecretText ==
    <<"1", "6", "C", "C", "E", "B", "3", "D", "-", "A", "B", "4", "2", "-", "0", "7",
      "7", "D", "-", "3", "6", "A", "1", "-", "F", "3", "5", "5", "3", "2", "4", "E",
      "4", "2", "3", "7">>

Request(method, url, params, data) ==
    [shape |-> "dict", method |-> method, url |-> url, params |-> params, data |-> data]

Get == StrVal(<<"G", "E", "T">>)
Post == StrVal(<<"P", "O", "S", "T">>)

\* the draws of random.random() that the model tries: the ends and the middle
\* of [0, 1)
RandTop == RandScale * (NonceMax - NonceMin)
RandDraws == {0, 1, 2, 3, RandTop \div 2, RandTop - 3, RandTop - 2, RandTop - 1}
TimeA == 1730000000
Times == {TimeA, TimeA + 1}

Call(request_info, secret, rnd, now) ==
    [request_info |-> request_info, secret |-> secret, rnd |-> rnd, now |-> now]

\* GET requests over every URL and every explicit params dict
GetCalls ==
    {Call(Request(Get, StrVal(u), p, AbsentDict), StrVal(SecretText), 0, TimeA) :
        u \in GetUrls, p \in {AbsentDict} \cup {DictVal(d) : d \in ParamDicts}}

\* requests with a body, and every draw of the nonce and the clock
BodyCalls ==
    {Call(Request(m, StrVal(PathText), AbsentDict, d), StrVal(SecretText), r, t) :
        m \in {Post, StrVal(<<"p", "u", "t">>)},
        d \in {AbsentDict, NoneDict, DictVal(<<>>),
               DictVal(<<[k |-> <<"k">>, v |-> StrVal(<<"v">>)]>>)},
        r \in RandDraws, t \in Times}

\* malformed requests: a field absent, None or of the wrong shape
MalformedCalls ==
    {Call(Request(m, u, p, d), s, 0, TimeA) :
        m \in {Get, StrVal(<<"g", "e", "t">>), Post, AbsentVal, NoneVal},
        u \in {StrVal(PathText \o <<"?", "a", "=", "2">>), AbsentVal, NoneVal},
        p \in {AbsentDict, NoneDict, [tag |-> "str", val |-> <<>>]},
        d \in {AbsentDict, [tag |-> "unserializable", val |-> <<>>]},
        s \in {StrVal(SecretText), NoneVal}}
    \cup {Call([Request(Get, StrVal(PathText), AbsentDict, AbsentDict)
                  EXCEPT !.shape = "none"], StrVal(SecretText), 0, TimeA)}

Calls == GetCalls \cup BodyCalls \cup MalformedCalls

NoOut == [exc |-> "none"]

SigInit ==
    /\ BASE_URL = ApiPrefix
    /\ sessions = <<>>
    /\ last = NoOp
    /\ \E c \in Calls : sig = [pc |-> "call", call |-> c, out |-> NoOut]

\* FNSIGN.generate_signature(request_info, secret)
GenerateSignature ==
    /\ sig.pc = "call"
    /\ sig' = [sig EXCEPT !.pc = "done",
                          !.out = generate_signature(sig.call.request_info,
                                                     sig.call.secret,
                                                     sig.call.rnd, sig.call.now)]
    /\ UNCHANGED <<BASE_URL, sessions, last>>

SigNext == GenerateSignature

SigSpec == SigInit /\ [][SigNext]_vars

(***************************************************************************)
(* Properties of construction (InitSpec).                                  *)
(***************************************************************************)
\* url, username and password all given and non-empty
Complete(kw) ==
    /\ kw.keys = ConfigKeys
    /\ kw.url # <<>> /\ kw.username # <<>> /\ kw.password # <<>>

\* the endpoints a request may name after the base address
IsEndpoint(path) == path \in {LoginPath, ListPath} \/ StartsWith(path, ScanPath)

\* C1 (as claimed): every request issued for an instance built with complete
\* credentials is addressed to that instance's own normalized url followed by
\* /v/api/v1 and the endpoint, whatever other instances were built.
C1_OwnBaseUrl ==
    (last.idx > 0 /\ Complete(sessions[last.idx]))
    => \A n \in 1..Len(last.requests) :
         LET own == sessions[last.idx].url \o ApiPrefix
             address == last.requests[n].address
         IN  /\ StartsWith(address, own)
             /\ IsEndpoint(SubSeq(address, Len(own) + 1, Len(address)))

\* C2: after construction with complete credentials, exactly one login
\* request was issued and nothing was raised; the instance is active exactly
\* when the login returned a non-empty token, which it then holds; when the
\* login failed the instance is inactive and its token is empty.
C2_LoginOnceActiveIffToken ==
    (last.op = "init" /\ Complete(last.kw))
    => /\ last.escaped = "none"
       /\ last.idx = Len(sessions) /\ last.idx > 0
       /\ Len(last.requests) = 1
       /\ last.requests[1].method = "POST"
       /\ LET s == sessions[last.idx]
              ok == last.login.kind = "ok"
              nonempty == last.login.token.tag = "str" /\ last.login.token.val # <<>>
          IN  /\ s.is_active <=> (ok /\ nonempty)
              /\ s.is_active => s.token = last.login.token
              /\ ~ok => (~s.is_active /\ s.token = StrVal(<<>>))

\* a construction with complete credentials whose login returned token T1
C2_Witness ==
    /\ last.op = "init" /\ Complete(last.kw)
    /\ last.login = [kind |-> "ok", token |-> StrVal(<<"T", "1">>)]
    /\ sessions[last.idx].is_active
    /\ sessions[last.idx].token = StrVal(<<"T", "1">>)

\* C10 (as claimed): no construction raises, whatever keys are given; with a
\* credential missing or empty no login request is issued and the instance
\* is inactive with an empty token.
C10_ConstructionNeverRaises ==
    last.op = "init"
    => /\ last.escaped = "none"
       /\ last.idx > 0
       /\ ~Complete(last.kw)
          => /\ last.requests = <<>>
             /\ ~sessions[last.idx].is_active
             /\ sessions[last.idx].token = StrVal(<<>>)

(***************************************************************************)
(* Properties of task execution (RunSpec).                                 *)
(***************************************************************************)
ErrorReports == {"request_error", "format_error", "unknown_error"}

\* C3: run lets no exception escape; a failed list or scan call, a reply
\* without the data field and a first library entry without a title are each
\* reported as an error.
C3_RunAbsorbsErrors ==
    last.op = "run"
    => /\ last.escaped = "none"
       /\ last.list.kind \in {"http_error", "network_error"}
          => last.report = "request_error"
       /\ last.scan.kind \in {"http_error", "network_error"}
          => last.report = "request_error"
       /\ (last.list.kind = "no_data" \/ last.scan.kind = "no_data")
          => last.report = "format_error"
       /\ last.list.kind = "data_null" => last.report = "unknown_error"
       /\ (last.list.kind = "ok" /\ last.list.data # <<>>
           /\ ~last.list.data[1].has_title)
          => last.report = "format_error"

\* a run whose scan reply lacks the data field, reported as a format error
C3_Witness ==
    /\ last.op = "run"
    /\ last.scan.kind = "no_data"
    /\ Len(last.requests) = 2
    /\ last.report = "format_error"
    /\ last.escaped = "none"

\* the positions of the listed entries whose title is the task's media_name
Matches(data, name) == {i \in 1..Len(data) : data[i].has_title /\ data[i].title = name}
FirstMatch(data, name) ==
    CHOOSE i \in Matches(data, name) : \A j \in Matches(data, name) : i <= j

\* the scan request for a guid
IsScanOf(request, guid) ==
    request.method = "POST" /\ request.address = BASE_URL \o ScanPath \o guid

\* C4 (as claimed): with no entry titled media_name, no scan request is
\* issued and the outcome is "not found"; with at least one, a scan request
\* is issued for the guid of the first such entry.
C4_AsClaimed ==
    (last.op = "run" /\ last.list.kind = "ok")
    => LET data == last.list.data
           name == MediaName(last.task).val
       IN  IF Matches(data, name) = {}
           THEN /\ Len(last.requests) = 1
                /\ last.report = "not_found"
                /\ last.escaped = "none"
           ELSE data[FirstMatch(data, name)].has_guid
                => /\ Len(last.requests) = 2
                   /\ IsScanOf(last.requests[2], data[FirstMatch(data, name)].guid)

\* C4 (amended): when every listed entry carries a title and none is titled
\* media_name, no scan request is issued and the outcome is "not found"; when
\* the first entry titled media_name is preceded only by entries that carry a
\* title, a scan request is issued for its guid if that guid is non-empty,
\* and if it is empty no scan request is issued and the outcome is "not
\* found".
C4_FirstMatchScanned ==
    (last.op = "run" /\ last.list.kind = "ok")
    => LET data == last.list.data
           name == MediaName(last.task).val
       IN  IF Matches(data, name) = {}
           THEN (\A i \in 1..Len(data) : data[i].has_title)
                => /\ Len(last.requests) = 1
                   /\ last.report = "not_found"
                   /\ last.escaped = "none"
           ELSE LET f == FirstMatch(data, name)
                IN  (/\ \A i \in 1..(f - 1) : data[i].has_title
                     /\ data[f].has_guid)
                    => IF data[f].guid # <<>>
                       THEN /\ Len(last.requests) = 2
                            /\ IsScanOf(last.requests[2], data[f].guid)
                       ELSE /\ Len(last.requests) = 1
                            /\ last.report = "not_found"
                            /\ last.escaped = "none"

\* the list [{g1, TV}, {g2, TV}] and a task for TV: g1 is scanned
C4_Witness ==
    /\ last.op = "run"
    /\ last.list = [kind |-> "ok",
                    data |-> <<Entry(TRUE, G1, TRUE, TV), Entry(TRUE, G2, TRUE, TV)>>]
    /\ MediaName(last.task) = StrVal(TV)
    /\ Len(last.requests) = 2
    /\ IsScanOf(last.requests[2], G1)

(***************************************************************************)
(* Properties of the signer (SigSpec).                                     *)
(***************************************************************************)
DigitChars == {"0", "1", "2", "3", "4", "5", "6", "7", "8", "9"}
IsDigits(s) == \A i \in 1..Len(s) : s[i] \in DigitChars

\* a GET call that returned a signature
GetDone ==
    /\ sig.pc = "done"
    /\ sig.out.exc = "none"
    /\ sig.out.is_get

\* the entries name=value of a canonical request text, decoded
CanonicalEntries(text) == IF text = <<>> THEN <<>> ELSE parse_qsl(text)

\* the explicit params of the call, {} when the key is absent
ExplicitParams == sig.call.request_info.params.val

\* the pieces name=value of the call's query string, decoded, in order
UrlItems ==
    LET parts == Split1(sig.call.request_info.url.val, "?")
    IN  IF Len(parts) = 2 THEN parse_qsl(parts[2]) ELSE <<>>

\* C5 (as claimed): the nonce is a text of exactly 6 digits, its value in
\* [100000, 999999], for every draw of the random source.
C5_NonceSixDigits ==
    (sig.pc = "done" /\ sig.out.exc = "none")
    => /\ Len(sig.out.nonce) = NonceWidth
       /\ IsDigits(sig.out.nonce)
       /\ sig.out.nonce[1] # "0"

\* C6 (as claimed): for a GET request, a key given with one value in the
\* explicit params and with another value in the URL's query string is
\* carried in the canonical request text with the explicit value.
C6_ExplicitParamsWin ==
    GetDone
    => \A i \in 1..Len(ExplicitParams), j \in 1..Len(UrlItems) :
         (/\ ExplicitParams[i].k = UrlItems[j].k
          /\ ExplicitParams[i].v.tag = "str"
          /\ ExplicitParams[i].v # UrlItems[j].v)
         => \E n \in 1..Len(CanonicalEntries(sig.out.request_text)) :
              CanonicalEntries(sig.out.request_text)[n] = ExplicitParams[i]

\* C7 (as claimed): for a GET request the canonical request text holds no
\* parameter whose value is "undefined" or "null", whether it came from the
\* URL's query string or from the explicit params.
C7_AsClaimed ==
    GetDone
    => \A n \in 1..Len(CanonicalEntries(sig.out.request_text)) :
         CanonicalEntries(sig.out.request_text)[n].v.val \notin {Undefined, Null}

\* C7 (amended): for a GET request no parameter that the URL's query string
\* gives the value "undefined" or "null" appears in the canonical request
\* text, and no explicit param whose value is None appears; an explicit param
\* whose value is the text "undefined" or "null" is kept: every entry of the
\* canonical text with such a value is an explicit param, and every such
\* explicit param is an entry unless the query string gives its key another
\* value that is kept.
C7_OnlyUrlValuesDropped ==
    GetDone
    => LET entries == CanonicalEntries(sig.out.request_text)
           kept == {j \in 1..Len(UrlItems) : UrlItems[j].v.val \notin {Undefined, Null}}
       IN  /\ \A n \in 1..Len(entries) :
                entries[n].v.val \in {Undefined, Null}
                => \E i \in 1..Len(ExplicitParams) : ExplicitParams[i] = entries[n]
           /\ \A i \in 1..Len(ExplicitParams) :
                (/\ ExplicitParams[i].v.tag = "str"
                 /\ ExplicitParams[i].v.val \in {Undefined, Null}
                 /\ \A j \in kept : UrlItems[j].k # ExplicitParams[i].k)
                => \E n \in 1..Len(entries) : entries[n] = ExplicitParams[i]
           /\ \A i \in 1..Len(ExplicitParams) :
                (/\ ExplicitParams[i].v.tag = "none"
                 /\ \A j \in kept : UrlItems[j].k # ExplicitParams[i].k)
                => \A n \in 1..Len(entries) : entries[n].k # ExplicitParams[i].k

\* a GET call whose query string gives a=undefined and whose explicit params
\* give b the text "undefined": the canonical text is b=undefined
C7_Witness ==
    /\ GetDone
    /\ \E j \in 1..Len(UrlItems) :
         UrlItems[j] = [k |-> <<"a">>, v |-> StrVal(Undefined)]
    /\ ExplicitParams = <<[k |-> <<"b">>, v |-> StrVal(Undefined)]>>
    /\ sig.out.request_text = <<"b", "=">> \o Undefined

\* C8: generate_signature raises nothing; a call that fails inside returns
\* the empty text, and a non-empty result is nonce=<nonce>&timestamp=
\* <timestamp>&sign=<sign> with the nonce and timestamp of the call.
C8_NeverRaises ==
    sig.pc = "done"
    => /\ sig.out.escaped = "none"
       /\ sig.out.exc # "none" => (sig.out.result = <<>> /\ sig.out.diag)
       /\ sig.out.result # <<>>
          => /\ sig.out.exc = "none"
             /\ sig.out.result =
                  SignatureHeader(sig.out.nonce, sig.out.timestamp, sig.out.sign)
             /\ sig.out.nonce # <<>> /\ IsDigits(sig.out.nonce)
             /\ sig.out.timestamp # <<>> /\ IsDigits(sig.out.timestamp)
             /\ sig.out.sign # <<>>

\* a GET call whose params are None: the empty text is returned
C8_Witness ==
    /\ sig.pc = "done"
    /\ sig.call.request_info.method = Get
    /\ sig.call.request_info.params.tag = "none"
    /\ sig.out.exc = "TypeError"
    /\ sig.out.escaped = "none"
    /\ sig.out.result = <<>>

\* the reorderings of 1..n that keep the items of equal key in their order
KeyOrderings(items) ==
    {f \in [1..Len(items) -> 1..Len(items)] :
        /\ \A i, j \in 1..Len(items) : f[i] = f[j] => i = j
        /\ \A i, j \in 1..Len(items) :
             (i < j /\ items[f[i]].k = items[f[j]].k) => f[i] < f[j]}

Reorder(seq, f) == [i \in 1..Len(seq) |-> seq[f[i]]]

\* C9: for a GET request, giving the same key/value pairs in another key
\* order, in the explicit params or in the URL's query string, yields the
\* same canonical request text and the same signatureText, and the entries
\* of the canonical text are in ascending key order.
C9_KeyOrderIrrelevant ==
    GetDone
    => LET info == sig.call.request_info
           parts == Split1(info.url.val, "?")
           pieces == IF Len(parts) = 2 /\ parts[2] # <<>>
                     THEN Split(parts[2], "&") ELSE <<>>
           entries == CanonicalEntries(sig.out.request_text)
       IN  /\ \A f \in KeyOrderings(ExplicitParams), g \in KeyOrderings(UrlItems) :
                LET url2 == IF Len(parts) = 2
                            THEN parts[1] \o <<"?">> \o Join(Reorder(pieces, g), <<"&">>)
                            ELSE info.url.val
                    info2 == [info EXCEPT !.url.val = url2,
                                          !.params.val = Reorder(ExplicitParams, f)]
                    out2 == generate_signature(info2, sig.call.secret,
                                               sig.call.rnd, sig.call.now)
                IN  /\ out2.request_text = sig.out.request_text
                    /\ out2.signature_text = sig.out.signature_text
           /\ \A m, n \in 1..Len(entries) :
                m < n => StrLess(entries[m].k, entries[n].k)

\* a GET call with explicit params b, a in that order and a query string of
\* two pieces: the canonical text names a then b
C9_Witness ==
    /\ GetDone
    /\ Len(ExplicitParams) = 2
    /\ ExplicitParams[1].k = <<"b">> /\ ExplicitParams[2].k = <<"a">>
    /\ ExplicitParams[1].v.tag = "str" /\ ExplicitParams[2].v.tag = "str"
    /\ Len(UrlItems) = 2
    /\ Len(CanonicalEntries(sig.out.request_text)) = 2
    /\ CanonicalEntries(sig.out.request_text)[1].k = <<"a">>

====
